---- MODULE Spec2Model ----
(***************************************************************************)
(* Model of pytube.contrib.search.Search: the lazily fetched, paginated    *)
(* search session (results, completion_suggestions, get_next_results) and  *)
(* the parser fetch_and_parse it drives.                                   *)
(*                                                                         *)
(* Python values are modelled as follows.                                  *)
(*   - An optional value (None, or an absent dict key) is a record         *)
(*     [isNone, v]; v is the payload when isNone is FALSE.                 *)
(*   - A raw JSON document is the record of the three keys the code reads: *)
(*     sectionList  : the list under contents/.../sectionListRenderer/     *)
(*                    contents (the initial-page path),                    *)
(*     continuationItems : the list under onResponseReceivedCommands[0]/   *)
(*                    appendContinuationItemsAction/continuationItems,     *)
(*     refinements  : the list under 'refinements'.                        *)
(*   - A string read by split/replace/int is a sequence of one-character   *)
(*     strings.                                                            *)
(*   - An exception is the name of its class; "" means no exception.       *)
(*   - An object built by a parse (YouTube, Channel) carries the number of *)
(*     the client call and the entry position that created it, so that two *)
(*     objects built by two parses are two objects.                        *)
(***************************************************************************)
EXTENDS Integers, Sequences, FiniteSets, TLC

VARIABLES
    query,                     \* self.query
    param,                     \* self.param
    _initial_results,          \* self._initial_results
    _results,                  \* self._results
    _completion_suggestions,   \* self._completion_suggestions
    _current_continuation,     \* self._current_continuation
    calls,                     \* requests received by self._innertube_client.search
    op,                        \* the operation that ran last
    exc,                       \* the exception it raised ("" when it returned)
    ret,                       \* the value it returned
    pre,                       \* the session fields when it was called
    hist,                      \* what the caller has observed so far
    threads,                   \* where each caller thread is in get_next_results
    synchronized               \* the callers run get_next_results one at a time

vars == <<query, param, _initial_results, _results, _completion_suggestions,
          _current_continuation, calls, op, exc, ret, pre, hist, threads,
          synchronized>>

-----------------------------------------------------------------------------
(* Bounds *)

\* client calls one session may make
MaxCalls == 3

\* caller threads of one session
NThreads == 2

-----------------------------------------------------------------------------
(* Python values *)

NoneStr == [isNone |-> TRUE, v |-> ""]
NoneList == [isNone |-> TRUE, v |-> <<>>]
Str(x) == [isNone |-> FALSE, v |-> x]
List(x) == [isNone |-> FALSE, v |-> x]

\* bool(x) of an optional list: None and [] are falsy
TruthyList(x) == ~x.isNone /\ x.v # <<>>

\* bool(x) of an optional string: None and '' are falsy
TruthyStr(x) == ~x.isNone /\ x.v # ""

\* F of the value of e, with e evaluated once (a local variable assignment)
Bind(e, F(_)) == CHOOSE y \in {F(x) : x \in {e}} : TRUE

EmptyDict == [sectionList |-> NoneList, continuationItems |-> NoneList,
              refinements |-> NoneList]
NoneDoc == [isNone |-> TRUE, v |-> EmptyDict]
Doc(d) == [isNone |-> FALSE, v |-> d]

\* bool(x) of an optional document: None and {} are falsy
TruthyDoc(x) == ~x.isNone /\ x.v # EmptyDict

\* class Params(Enum)
FILTER_VIDEO == Str("EgIQAQ%3D%3D")

-----------------------------------------------------------------------------
(* documents: entries, sections, pages *)

\* the keys _parse_video reads unconditionally
VideoFields == {"videoId", "title", "ownerText"}

NoViewCountText == [isNone |-> TRUE, v |-> [form |-> "", text |-> <<>>]]
ViewCountText(form, text) == [isNone |-> FALSE, v |-> [form |-> form, text |-> text]]

Entry(keys, id, fields, viewCountText) ==
    [keys |-> keys,
     renderer |-> [id |-> id, fields |-> fields, viewCountText |-> viewCountText]]

Views == <<"1", ",", "2", "3", "4", " ", "v", "i", "e", "w", "s">>
NoViews == <<"N", "o", " ", "v", "i", "e", "w", "s">>
Watching == <<"5", "6", " ", "w", "a", "t", "c", "h", "i", "n", "g">>
KViews == <<"1", ".", "2", "K", " ", "v", "i", "e", "w", "s">>

Video(id) == Entry({"videoRenderer"}, id, VideoFields, ViewCountText("simpleText", Views))
Channel(id) == Entry({"channelRenderer"}, id, {"channelId"}, NoViewCountText)
Skipped(key) == Entry({key}, "", {}, NoViewCountText)

ItemSection(contents) ==
    [itemSectionRenderer |-> List(contents), continuationItemRenderer |-> NoneStr]
ContinuationItem(token) ==
    [itemSectionRenderer |-> NoneList, continuationItemRenderer |-> Str(token)]

InitialPage(sections, refinements) ==
    [sectionList |-> List(sections), continuationItems |-> NoneList,
     refinements |-> refinements]
ContinuationPage(sections, refinements) ==
    [sectionList |-> NoneList, continuationItems |-> List(sections),
     refinements |-> refinements]

-----------------------------------------------------------------------------
(* _parse_video, _parse_channel *)

Digits == {"0", "1", "2", "3", "4", "5", "6", "7", "8", "9"}

RECURSIVE DropSpaces(_)
DropSpaces(t) ==
    IF t # <<>> /\ Head(t) = " " THEN DropSpaces(Tail(t)) ELSE t

RECURSIVE TakeWord(_)
TakeWord(t) ==
    IF t = <<>> \/ Head(t) = " " THEN <<>> ELSE <<Head(t)>> \o TakeWord(Tail(t))

\* view_count_text.split(): the first word, [exc, v]
SplitFirst(t) ==
    LET w == TakeWord(DropSpaces(t))
    IN IF w = <<>> THEN [exc |-> "IndexError", v |-> <<>>]
       ELSE [exc |-> "", v |-> w]

\* replace(',', '') left out
RemoveCommas_kept(w) == w

\* .replace(',', '')
RemoveCommas(w) == SelectSeq(w, LAMBDA c : c # ",")

DigitValue(c) == CHOOSE n \in 0..9 : ToString(n) = c

RECURSIVE DecimalValue(_, _)
DecimalValue(w, acc) ==
    IF w = <<>> THEN acc ELSE DecimalValue(Tail(w), acc * 10 + DigitValue(Head(w)))

\* int(stripped_text), [exc, v]
ParseInt(w) ==
    IF w # <<>> /\ \A i \in 1..Len(w) : w[i] \in Digits
    THEN [exc |-> "", v |-> DecimalValue(w, 0)]
    ELSE [exc |-> "ValueError", v |-> 0]

\* the view_count of a videoRenderer, [exc, v]
view_count(renderer) ==
    IF renderer.viewCountText.isNone THEN [exc |-> "", v |-> 0]
    ELSE Bind(SplitFirst(renderer.viewCountText.v.text), LAMBDA first :
         IF first.exc # "" THEN [exc |-> first.exc, v |-> 0]
         ELSE Bind(RemoveCommas(first.v), LAMBDA stripped_text :
              IF stripped_text = <<"N", "o">> THEN [exc |-> "", v |-> 0]
              ELSE ParseInt(stripped_text)))

\* [exc, v]: the YouTube object of one videoRenderer entry
_parse_video(video_details, call, pos) ==
    LET renderer == video_details.renderer
        none == [cls |-> "", id |-> "", call |-> 0, pos |-> 0]
    IN IF ~(VideoFields \subseteq renderer.fields)
       THEN [exc |-> "KeyError", v |-> none]
       ELSE Bind(view_count(renderer), LAMBDA vc :
            IF vc.exc # "" THEN [exc |-> vc.exc, v |-> none]
            ELSE [exc |-> "",
                  v |-> [cls |-> "YouTube", id |-> renderer.id, call |-> call,
                         pos |-> pos]])

\* [exc, v]: the Channel object of one channelRenderer entry
_parse_channel(channel_details, call, pos) ==
    LET renderer == channel_details.renderer
        none == [cls |-> "", id |-> "", call |-> 0, pos |-> 0]
    IN IF "channelId" \notin renderer.fields
       THEN [exc |-> "KeyError", v |-> none]
       ELSE [exc |-> "",
             v |-> [cls |-> "Channel", id |-> renderer.id, call |-> call, pos |-> pos]]

-----------------------------------------------------------------------------
(* the parsing half of fetch_and_parse *)

SkippedKeys == <<"searchPyvRenderer", "shelfRenderer", "radioRenderer",
                 "playlistRenderer", "horizontalCardListRenderer",
                 "didYouMeanRenderer", "backgroundPromoRenderer">>

\* Branch without the elif for channelRenderer
Branch_withoutChannel(details) ==
    IF \E i \in 1..Len(SkippedKeys) : SkippedKeys[i] \in details.keys THEN "skip"
    ELSE IF "videoRenderer" \in details.keys THEN "video"
    ELSE "unexpected"

\* the branch of the if/elif chain one entry takes
Branch(details) ==
    IF \E i \in 1..Len(SkippedKeys) : SkippedKeys[i] \in details.keys THEN "skip"
    ELSE IF "videoRenderer" \in details.keys THEN "video"
    ELSE IF "channelRenderer" \in details.keys THEN "channel"
    ELSE "unexpected"

\* ParseContents with a failing entry skipped instead of raised
RECURSIVE ParseContents_skipping(_, _, _, _, _)
ParseContents_skipping(contents, i, call, results, warnings) ==
    IF i > Len(contents) THEN [exc |-> "", v |-> results, warnings |-> warnings]
    ELSE Bind(Branch(contents[i]), LAMBDA b :
         IF b = "skip"
         THEN ParseContents_skipping(contents, i + 1, call, results, warnings)
         ELSE IF b = "unexpected"
              THEN ParseContents_skipping(contents, i + 1, call, results, warnings + 1)
         ELSE Bind(IF b = "video" THEN _parse_video(contents[i], call, i)
                   ELSE _parse_channel(contents[i], call, i), LAMBDA result :
              ParseContents_skipping(contents, i + 1, call,
                  IF result.exc # "" THEN results ELSE Append(results, result.v),
                  warnings)))

\* ParseContents with the loop left at the first unexpected entry
RECURSIVE ParseContents_stopping(_, _, _, _, _)
ParseContents_stopping(contents, i, call, results, warnings) ==
    IF i > Len(contents) THEN [exc |-> "", v |-> results, warnings |-> warnings]
    ELSE Bind(Branch(contents[i]), LAMBDA b :
         IF b = "skip"
         THEN ParseContents_stopping(contents, i + 1, call, results, warnings)
         ELSE IF b = "unexpected"
              THEN [exc |-> "", v |-> results, warnings |-> warnings + 1]
         ELSE Bind(IF b = "video" THEN _parse_video(contents[i], call, i)
                   ELSE _parse_channel(contents[i], call, i), LAMBDA result :
              IF result.exc # ""
              THEN [exc |-> result.exc, v |-> <<>>, warnings |-> warnings]
              ELSE ParseContents_stopping(contents, i + 1, call,
                                          Append(results, result.v), warnings)))

\* the loop over contents from entry i on, [exc, v, warnings]
RECURSIVE ParseContents(_, _, _, _, _)
ParseContents(contents, i, call, results, warnings) ==
    IF i > Len(contents) THEN [exc |-> "", v |-> results, warnings |-> warnings]
    ELSE Bind(Branch(contents[i]), LAMBDA b :
         IF b = "skip" THEN ParseContents(contents, i + 1, call, results, warnings)
         ELSE IF b = "unexpected"
              THEN ParseContents(contents, i + 1, call, results, warnings + 1)
         ELSE Bind(IF b = "video" THEN _parse_video(contents[i], call, i)
                   ELSE _parse_channel(contents[i], call, i), LAMBDA result :
              IF result.exc # ""
              THEN [exc |-> result.exc, v |-> <<>>, warnings |-> warnings]
              ELSE ParseContents(contents, i + 1, call, Append(results, result.v),
                                 warnings)))

\* the try/except that finds the sections of a document, [exc, v]
Sections(raw_results) ==
    IF ~raw_results.sectionList.isNone THEN [exc |-> "", v |-> raw_results.sectionList.v]
    ELSE IF ~raw_results.continuationItems.isNone
         THEN [exc |-> "", v |-> raw_results.continuationItems.v]
    ELSE [exc |-> "KeyError", v |-> <<>>]

\* ItemRenderer with the first itemSectionRenderer kept
RECURSIVE ItemRenderer_first(_, _)
ItemRenderer_first(sections, item_renderer) ==
    IF sections = <<>> THEN item_renderer
    ELSE ItemRenderer_first(Tail(sections),
                            IF item_renderer.isNone
                            THEN Head(sections).itemSectionRenderer ELSE item_renderer)

\* the last itemSectionRenderer of the sections (None when there is none)
RECURSIVE ItemRenderer(_, _)
ItemRenderer(sections, item_renderer) ==
    IF sections = <<>> THEN item_renderer
    ELSE ItemRenderer(Tail(sections),
                      IF ~Head(sections).itemSectionRenderer.isNone
                      THEN Head(sections).itemSectionRenderer ELSE item_renderer)

\* the last continuationItemRenderer of the sections (None when there is none)
RECURSIVE ContinuationRenderer(_, _)
ContinuationRenderer(sections, continuation_renderer) ==
    IF sections = <<>> THEN continuation_renderer
    ELSE ContinuationRenderer(Tail(sections),
                      IF ~Head(sections).continuationItemRenderer.isNone
                      THEN Head(sections).continuationItemRenderer
                      ELSE continuation_renderer)

\* Parse with an empty result list returned as None
Parse_noneWhenEmpty(raw_results, call) ==
    LET failed(e) == [exc |-> e, results |-> NoneList, next_continuation |-> NoneStr,
                      warnings |-> 0]
    IN Bind(Sections(raw_results), LAMBDA sections :
       IF sections.exc # "" THEN failed(sections.exc)
       ELSE Bind(ItemRenderer(sections.v, NoneList), LAMBDA item_renderer :
            Bind(ContinuationRenderer(sections.v, NoneStr), LAMBDA continuation_renderer :
            Bind(IF ~continuation_renderer.isNone THEN Str(continuation_renderer.v)
                 ELSE NoneStr, LAMBDA next_continuation :
            IF item_renderer.isNone
            THEN [exc |-> "", results |-> NoneList,
                  next_continuation |-> next_continuation, warnings |-> 0]
            ELSE Bind(ParseContents(item_renderer.v, 1, call, <<>>, 0), LAMBDA parsed :
                 IF parsed.exc # "" THEN failed(parsed.exc)
                 ELSE [exc |-> "",
                       results |-> IF parsed.v = <<>> THEN NoneList ELSE List(parsed.v),
                       next_continuation |-> next_continuation,
                       warnings |-> parsed.warnings])))))

\* Parse with results initialised to [] instead of None
Parse_emptyWhenNoSection(raw_results, call) ==
    LET failed(e) == [exc |-> e, results |-> NoneList, next_continuation |-> NoneStr,
                      warnings |-> 0]
    IN Bind(Sections(raw_results), LAMBDA sections :
       IF sections.exc # "" THEN failed(sections.exc)
       ELSE Bind(ItemRenderer(sections.v, NoneList), LAMBDA item_renderer :
            Bind(ContinuationRenderer(sections.v, NoneStr), LAMBDA continuation_renderer :
            Bind(IF ~continuation_renderer.isNone THEN Str(continuation_renderer.v)
                 ELSE NoneStr, LAMBDA next_continuation :
            IF item_renderer.isNone
            THEN [exc |-> "", results |-> List(<<>>),
                  next_continuation |-> next_continuation, warnings |-> 0]
            ELSE Bind(ParseContents(item_renderer.v, 1, call, <<>>, 0), LAMBDA parsed :
                 IF parsed.exc # "" THEN failed(parsed.exc)
                 ELSE [exc |-> "", results |-> List(parsed.v),
                       next_continuation |-> next_continuation,
                       warnings |-> parsed.warnings])))))

\* fetch_and_parse after fetch_query: [exc, results, next_continuation, warnings]
Parse(raw_results, call) ==
    LET failed(e) == [exc |-> e, results |-> NoneList, next_continuation |-> NoneStr,
                      warnings |-> 0]
    IN Bind(Sections(raw_results), LAMBDA sections :
       IF sections.exc # "" THEN failed(sections.exc)
       ELSE Bind(ItemRenderer(sections.v, NoneList), LAMBDA item_renderer :
            Bind(ContinuationRenderer(sections.v, NoneStr), LAMBDA continuation_renderer :
            Bind(IF ~continuation_renderer.isNone THEN Str(continuation_renderer.v)
                 ELSE NoneStr, LAMBDA next_continuation :
            IF item_renderer.isNone
            THEN [exc |-> "", results |-> NoneList,
                  next_continuation |-> next_continuation, warnings |-> 0]
            ELSE Bind(ParseContents(item_renderer.v, 1, call, <<>>, 0), LAMBDA parsed :
                 IF parsed.exc # "" THEN failed(parsed.exc)
                 ELSE [exc |-> "", results |-> List(parsed.v),
                       next_continuation |-> next_continuation,
                       warnings |-> parsed.warnings])))))

-----------------------------------------------------------------------------
(* the session: fetch_query, fetch_and_parse, results, completion_suggestions,
   get_next_results.  self is the record of the session's fields and of the
   requests its client has received; resp is what the client does with the
   next request: [fails, doc]. *)

\* fetch_query with a client failure answered by an empty document
fetch_query_swallowing(self, resp, continuation) ==
    LET called == [self EXCEPT !.calls = Append(@, [query |-> self.query,
                                                    param |-> self.param,
                                                    continuation |-> continuation])]
        doc == IF resp.fails THEN InitialPage(<<ItemSection(<<>>)>>, NoneList)
               ELSE resp.doc
    IN [exc |-> "",
        self |-> IF ~TruthyDoc(called._initial_results)
                 THEN [called EXCEPT !._initial_results = Doc(doc)]
                 ELSE called,
        ret |-> doc]

\* [exc, self, ret]
fetch_query(self, resp, continuation) ==
    LET called == [self EXCEPT !.calls = Append(@, [query |-> self.query,
                                                    param |-> self.param,
                                                    continuation |-> continuation])]
    IN IF resp.fails THEN [exc |-> "ClientError", self |-> called, ret |-> EmptyDict]
       ELSE [exc |-> "",
             self |-> IF ~TruthyDoc(called._initial_results)
                      THEN [called EXCEPT !._initial_results = Doc(resp.doc)]
                      ELSE called,
             ret |-> resp.doc]

\* [exc, self, videos, continuation, warnings]; warnings counts the entries
\* reported to the logger
fetch_and_parse(self, resp, continuation) ==
    Bind(fetch_query(self, resp, continuation), LAMBDA raw_results :
    IF raw_results.exc # ""
    THEN [exc |-> raw_results.exc, self |-> raw_results.self,
          videos |-> NoneList, continuation |-> NoneStr, warnings |-> 0]
    ELSE Bind(Parse(raw_results.ret, Len(raw_results.self.calls)), LAMBDA page :
         [exc |-> page.exc, self |-> raw_results.self,
          videos |-> page.results, continuation |-> page.next_continuation,
          warnings |-> page.warnings]))

\* the results property, [exc, self, ret]
results(self, resp) ==
    IF TruthyList(self._results) THEN [exc |-> "", self |-> self, ret |-> self._results]
    ELSE Bind(fetch_and_parse(self, resp, NoneStr), LAMBDA f :
         IF f.exc # "" THEN [exc |-> f.exc, self |-> f.self, ret |-> NoneList]
         ELSE [exc |-> "",
               self |-> [f.self EXCEPT !._results = f.videos,
                                       !._current_continuation = f.continuation],
               ret |-> f.videos])

\* the completion_suggestions property, [exc, self, ret]
completion_suggestions(self, resp) ==
    IF TruthyList(self._completion_suggestions)
    THEN [exc |-> "", self |-> self, ret |-> self._completion_suggestions]
    ELSE Bind(results(self, resp), LAMBDA r :
         IF r.exc # "" THEN [exc |-> r.exc, self |-> r.self, ret |-> NoneList]
         ELSE IF ~TruthyList(r.ret)
              THEN [exc |-> "", self |-> r.self, ret |-> r.self._completion_suggestions]
         ELSE IF r.self._initial_results.isNone
              THEN [exc |-> "TypeError", self |-> r.self, ret |-> NoneList]
         ELSE IF r.self._initial_results.v.refinements.isNone
              THEN [exc |-> "KeyError", self |-> r.self, ret |-> NoneList]
         ELSE [exc |-> "",
               self |-> [r.self EXCEPT !._completion_suggestions =
                                           r.self._initial_results.v.refinements],
               ret |-> r.self._initial_results.v.refinements])

\* get_next_results without the test of the stored continuation
get_next_results_unguarded(self, resp) ==
    Bind(fetch_and_parse(self, resp, self._current_continuation), LAMBDA f :
    IF f.exc # "" THEN [exc |-> f.exc, self |-> f.self, ret |-> NoneList]
    ELSE IF f.self._results.isNone
         THEN [exc |-> "AttributeError", self |-> f.self, ret |-> NoneList]
    ELSE IF f.videos.isNone
         THEN [exc |-> "TypeError", self |-> f.self, ret |-> NoneList]
    ELSE [exc |-> "",
          self |-> [f.self EXCEPT !._results = List(@.v \o f.videos.v),
                                  !._current_continuation = f.continuation],
          ret |-> NoneList])

\* get_next_results with the continuation stored before the results are extended
get_next_results_storingFirst(self, resp) ==
    IF ~TruthyStr(self._current_continuation)
    THEN [exc |-> "IndexError", self |-> self, ret |-> NoneList]
    ELSE Bind(fetch_and_parse(self, resp, self._current_continuation), LAMBDA f :
         IF f.exc # "" THEN [exc |-> f.exc, self |-> f.self, ret |-> NoneList]
         ELSE Bind([f.self EXCEPT !._current_continuation = f.continuation],
                   LAMBDA stored :
              IF stored._results.isNone
              THEN [exc |-> "AttributeError", self |-> stored, ret |-> NoneList]
              ELSE IF f.videos.isNone
                   THEN [exc |-> "TypeError", self |-> stored, ret |-> NoneList]
              ELSE [exc |-> "",
                    self |-> [stored EXCEPT !._results = List(@.v \o f.videos.v)],
                    ret |-> NoneList]))

\* [exc, self, ret]
get_next_results(self, resp) ==
    IF ~TruthyStr(self._current_continuation)
    THEN [exc |-> "IndexError", self |-> self, ret |-> NoneList]
    ELSE Bind(fetch_and_parse(self, resp, self._current_continuation), LAMBDA f :
         IF f.exc # "" THEN [exc |-> f.exc, self |-> f.self, ret |-> NoneList]
         ELSE IF f.self._results.isNone
              THEN [exc |-> "AttributeError", self |-> f.self, ret |-> NoneList]
         ELSE IF f.videos.isNone
              THEN [exc |-> "TypeError", self |-> f.self, ret |-> NoneList]
         ELSE [exc |-> "",
               self |-> [f.self EXCEPT !._results = List(@.v \o f.videos.v),
                                       !._current_continuation = f.continuation],
               ret |-> NoneList])

-----------------------------------------------------------------------------
(* what the client can answer *)

\* the documents the client answers with in the session specification
SessionDocs ==
    { InitialPage(<<ItemSection(<<Video("a"), Skipped("searchPyvRenderer"),
                                  Channel("b")>>),
                    ContinuationItem("t1")>>, List(<<"s1">>)),
      InitialPage(<<ItemSection(<<Skipped("shelfRenderer")>>),
                    ContinuationItem("t1")>>, List(<<"s1">>)),
      InitialPage(<<ItemSection(<<>>)>>, List(<<"s2">>)),
      InitialPage(<<ContinuationItem("t1")>>, NoneList),
      InitialPage(<<ItemSection(<<Entry({"videoRenderer"}, "c", VideoFields,
                                        ViewCountText("simpleText", NoViews))>>)>>,
                  List(<<>>)),
      InitialPage(<<ItemSection(<<Video("a"),
                                  Entry({"videoRenderer"}, "e", {"videoId", "title"},
                                        NoViewCountText),
                                  Channel("b")>>),
                    ContinuationItem("t1")>>, List(<<"s1">>)),
      ContinuationPage(<<ItemSection(<<Entry({"videoRenderer"}, "c", VideoFields,
                                             ViewCountText("runs", Watching))>>),
                         ContinuationItem("t2")>>, List(<<"s2">>)),
      ContinuationPage(<<ItemSection(<<Channel("d"), Entry({"reelShelfRenderer"}, "",
                                                           {}, NoViewCountText)>>)>>,
                       NoneList),
      ContinuationPage(<<ContinuationItem("t2")>>, NoneList),
      ContinuationPage(<<ItemSection(<<Skipped("playlistRenderer")>>)>>, NoneList),
      ContinuationPage(<<ItemSection(<<Entry({"videoRenderer"}, "f", VideoFields,
                                             ViewCountText("simpleText", KViews))>>),
                         ContinuationItem("t2")>>, NoneList),
      [sectionList |-> NoneList, continuationItems |-> NoneList,
       refinements |-> List(<<"s2">>)],
      EmptyDict }

\* the client raises
Failure == [fails |-> TRUE, doc |-> EmptyDict]

\* what the client does with one request: it raises, or it returns a document
Responses == {Failure} \cup {[fails |-> FALSE, doc |-> d] : d \in SessionDocs}

Queries == {"cats"}
ParamValues == {NoneStr, FILTER_VIDEO}

-----------------------------------------------------------------------------
(* the session as a state machine *)

Self == [query |-> query, param |-> param, _initial_results |-> _initial_results,
         _results |-> _results, _completion_suggestions |-> _completion_suggestions,
         _current_continuation |-> _current_continuation, calls |-> calls]

Unseen == [seen |-> FALSE, val |-> NoneList]
Seen(x) == [seen |-> TRUE, val |-> x]

\* nothing observed yet
NoHist == [initialDone |-> FALSE, firstDoc |-> NoneDoc, expected |-> <<>>,
           lastRead |-> Unseen, firstSuggestions |-> Unseen, exhausted |-> FALSE,
           lastToken |-> [seen |-> FALSE, val |-> NoneStr],
           fetched |-> NoneDoc, clientFailed |-> FALSE, seed |-> NoneDoc]

\* the part of the observations an operation's outcome is compared with
Before(h) == [lastRead |-> h.lastRead, firstSuggestions |-> h.firstSuggestions,
              exhausted |-> h.exhausted, lastToken |-> h.lastToken]

Threads == 1..NThreads

\* a thread that is not inside get_next_results; e is what its last call raised
Outside(e) == [pc |-> "idle", exc |-> e, videos |-> NoneList, continuation |-> NoneStr]

\* Search.__init__
Init ==
    /\ query \in Queries
    /\ param \in ParamValues
    /\ _initial_results = NoneDoc
    /\ _results = NoneList
    /\ _completion_suggestions = NoneList
    /\ _current_continuation = NoneStr
    /\ calls = <<>>
    /\ op = "__init__"
    /\ exc = ""
    /\ ret = NoneList
    /\ pre = [self |-> Self, hist |-> Before(NoHist)]
    /\ hist = NoHist
    /\ threads = [t \in Threads |-> Outside("")]
    /\ synchronized = TRUE

\* what the caller observes of operation o, which answered out to response resp
Observe(o, out, resp) ==
    LET fetched == Len(out.self.calls) > Len(calls)
    IN Bind(Parse(resp.doc, Len(out.self.calls)), LAMBDA page :
       LET parsed == fetched /\ ~resp.fails /\ page.exc = ""
           first == ~hist.initialDone /\ o # "get_next_results" /\ parsed
       IN [initialDone |-> hist.initialDone \/ first,
           firstDoc |-> IF first THEN Doc(resp.doc) ELSE hist.firstDoc,
           expected |-> IF first THEN page.results.v
                        ELSE IF o = "get_next_results" /\ out.exc = ""
                             THEN hist.expected \o page.results.v
                        ELSE hist.expected,
           lastRead |-> IF o = "get_next_results" THEN Unseen
                        ELSE IF o = "results" /\ out.exc = "" THEN Seen(out.ret)
                        ELSE hist.lastRead,
           firstSuggestions |-> IF ~hist.firstSuggestions.seen
                                   /\ o = "completion_suggestions" /\ out.exc = ""
                                THEN Seen(out.ret) ELSE hist.firstSuggestions,
           exhausted |-> hist.exhausted \/ (parsed /\ page.next_continuation.isNone),
           lastToken |-> IF parsed
                         THEN [seen |-> TRUE, val |-> page.next_continuation]
                         ELSE hist.lastToken,
           fetched |-> IF fetched /\ ~resp.fails THEN Doc(resp.doc) ELSE NoneDoc,
           clientFailed |-> fetched /\ resp.fails,
           seed |-> IF o # "get_next_results" /\ parsed THEN Doc(resp.doc)
                    ELSE hist.seed])

\* the caller runs operation o, which answers out; resp is drawn only when the
\* operation calls the client
Step(o, out, resp) ==
    /\ Len(out.self.calls) <= MaxCalls
    /\ Len(out.self.calls) = Len(calls) => resp = Failure
    /\ query' = out.self.query
    /\ param' = out.self.param
    /\ _initial_results' = out.self._initial_results
    /\ _results' = out.self._results
    /\ _completion_suggestions' = out.self._completion_suggestions
    /\ _current_continuation' = out.self._current_continuation
    /\ calls' = out.self.calls
    /\ op' = o
    /\ exc' = out.exc
    /\ ret' = out.ret
    /\ pre' = [self |-> Self, hist |-> Before(hist)]
    /\ hist' = Observe(o, out, resp)
    /\ UNCHANGED <<threads, synchronized>>

ReadResults ==
    \E resp \in Responses :
        \E out \in {results(Self, resp)} : Step("results", out, resp)

ReadCompletionSuggestions ==
    \E resp \in Responses :
        \E out \in {completion_suggestions(Self, resp)} :
            Step("completion_suggestions", out, resp)

GetNextResults ==
    \E resp \in Responses :
        \E out \in {get_next_results(Self, resp)} : Step("get_next_results", out, resp)

Next == ReadResults \/ ReadCompletionSuggestions \/ GetNextResults

Spec == Init /\ [][Next]_vars

TypeOK ==
    /\ op \in {"__init__", "results", "completion_suggestions", "get_next_results"}
    /\ Len(calls) <= MaxCalls

-----------------------------------------------------------------------------
(* direct calls of fetch_and_parse on a new session *)

\* entries of one item section
MaxEntries == 2

\* one entry of each kind the if/elif chain tells apart, two that fail in
\* _parse_video, and one that carries two variant keys
EntryPool ==
    {Skipped(SkippedKeys[i]) : i \in 1..Len(SkippedKeys)}
    \cup { Video("a"), Channel("b"),
           Entry({"reelShelfRenderer"}, "", {}, NoViewCountText),
           Entry({"videoRenderer"}, "e", {"videoId", "title"}, NoViewCountText),
           Entry({"videoRenderer"}, "f", VideoFields, ViewCountText("simpleText", KViews)),
           Entry({"shelfRenderer", "videoRenderer"}, "g", VideoFields, NoViewCountText) }

ContentsLists == UNION {[1..n -> EntryPool] : n \in 0..MaxEntries}

\* the item sections of the documents with several sections
FewContents == { <<>>, <<Video("a")>>, <<Channel("b"), Skipped("radioRenderer")>>,
                 <<Entry({"videoRenderer"}, "e", {"videoId", "title"},
                         NoViewCountText)>> }

SectionLists ==
    { <<>>, <<ContinuationItem("t1")>>,
      <<[itemSectionRenderer |-> NoneList, continuationItemRenderer |-> NoneStr]>> }
    \cup {<<ItemSection(c)>> : c \in ContentsLists}
    \cup {<<ItemSection(c), ContinuationItem("t1")>> : c \in ContentsLists}
    \cup {<<ItemSection(c[1]), ItemSection(c[2])>> : c \in FewContents \X FewContents}
    \cup {<<ItemSection(c[1]), ContinuationItem("t1"), ItemSection(c[2]),
            ContinuationItem("t2")>> : c \in FewContents \X FewContents}
    \cup {<<ContinuationItem("t1"), ContinuationItem("t2"), ItemSection(c)>> :
              c \in FewContents}
    \cup {<<[itemSectionRenderer |-> List(c), continuationItemRenderer |-> Str("t2")],
            ContinuationItem("t1")>> : c \in FewContents}

\* the documents the client answers a direct call with
ParserDocs ==
    {InitialPage(sections, NoneList) : sections \in SectionLists}
    \cup {ContinuationPage(sections, NoneList) : sections \in SectionLists}
    \cup {EmptyDict}

ParserResponses == {Failure} \cup {[fails |-> FALSE, doc |-> d] : d \in ParserDocs}

\* one call of fetch_and_parse on the new session
FetchAndParse ==
    /\ op = "__init__"
    /\ \E resp \in ParserResponses, continuation \in {NoneStr, Str("t0")} :
           \E f \in {fetch_and_parse(Self, resp, continuation)} :
               Step("fetch_and_parse",
                    [exc |-> f.exc, self |-> f.self,
                     ret |-> [videos |-> f.videos, continuation |-> f.continuation,
                              warnings |-> f.warnings]],
                    resp)

\* view-count texts: digits with separators and a unit word, "No views", an
\* abbreviated count, and texts without a first word or without digits
MillionViews == <<"1", ",", "2", "3", "4", ",", "5", "6", "7", " ",
                  "v", "i", "e", "w", "s">>
ViewCountTexts ==
    { MillionViews, Views, NoViews, Watching, KViews, <<>>, <<" ">>, <<",">>,
      <<"N", "o">>, <<"7">>, <<"0", " ", "v", "i", "e", "w", "s">>,
      <<" ", "8", "9", " ", "v", "i", "e", "w", "s">>, <<"v", "i", "e", "w", "s">>,
      <<"N", "o", "n", "e">>, <<"1", "2", "x">>, <<"3", ",", ",", "4">> }

\* the video entries _parse_video is called with
VideoEntries ==
    {Entry({"videoRenderer"}, "a", fields, NoViewCountText) :
         fields \in {VideoFields, {"videoId", "ownerText"}}}
    \cup {Entry({"videoRenderer"}, "a", VideoFields, ViewCountText(form, text)) :
              form \in {"runs", "simpleText"}, text \in ViewCountTexts}

\* one call of _parse_video on the new session; ret keeps the entry, the
\* view_count the call computed and the object it returned
ParseVideo ==
    /\ op = "__init__"
    /\ \E video_details \in VideoEntries :
           \E video \in {_parse_video(video_details, 0, 1)} :
               /\ op' = "_parse_video"
               /\ exc' = video.exc
               /\ ret' = [details |-> video_details,
                          view_count |-> view_count(video_details.renderer),
                          video |-> video.v]
    /\ UNCHANGED <<query, param, _initial_results, _results, _completion_suggestions,
                   _current_continuation, calls, pre, hist, threads, synchronized>>

ParseNext == FetchAndParse \/ ParseVideo

ParseSpec == Init /\ [][ParseNext]_vars

-----------------------------------------------------------------------------
(* get_next_results called by several threads of one session, line by line *)

\* the client answers by continuation: the initial page, the page of "t1",
\* the last page
search(continuation) ==
    [fails |-> FALSE,
     doc |-> IF continuation.isNone
             THEN InitialPage(<<ItemSection(<<Video("a")>>), ContinuationItem("t1")>>,
                              List(<<"s1">>))
             ELSE IF continuation.v = "t1"
                  THEN ContinuationPage(<<ItemSection(<<Channel("d")>>),
                                          ContinuationItem("t2")>>, NoneList)
             ELSE ContinuationPage(<<ItemSection(<<Video("c")>>)>>, NoneList)]

\* the session after .results was read once
ThreadsInit ==
    /\ synchronized \in BOOLEAN
    /\ threads = [t \in Threads |-> Outside("")]
    /\ \E q \in Queries, p \in ParamValues :
           \E new \in {[query |-> q, param |-> p, _initial_results |-> NoneDoc,
                        _results |-> NoneList, _completion_suggestions |-> NoneList,
                        _current_continuation |-> NoneStr, calls |-> <<>>]} :
               \E out \in {results(new, search(NoneStr))} :
                   /\ query = out.self.query
                   /\ param = out.self.param
                   /\ _initial_results = out.self._initial_results
                   /\ _results = out.self._results
                   /\ _completion_suggestions = out.self._completion_suggestions
                   /\ _current_continuation = out.self._current_continuation
                   /\ calls = out.self.calls
                   /\ op = "results"
                   /\ exc = out.exc
                   /\ ret = out.ret
                   /\ pre = [self |-> new, hist |-> Before(NoHist)]
                   /\ hist = NoHist

\* the session fields become those of self; thread t moves to state
Run(t, self, state) ==
    /\ query' = self.query
    /\ param' = self.param
    /\ _initial_results' = self._initial_results
    /\ _results' = self._results
    /\ _completion_suggestions' = self._completion_suggestions
    /\ _current_continuation' = self._current_continuation
    /\ calls' = self.calls
    /\ op' = "get_next_results"
    /\ exc' = state.exc
    /\ threads' = [threads EXCEPT ![t] = state]
    /\ UNCHANGED <<ret, pre, hist, synchronized>>

\* self._current_continuation = continuation without the assignment
store_continuation_dropped(self, continuation) == self

\* self._current_continuation = continuation
store_continuation(self, continuation) ==
    [self EXCEPT !._current_continuation = continuation]

\* thread t enters get_next_results - alone, when the callers are synchronized -
\* and tests the stored continuation
TestContinuation(t) ==
    /\ threads[t].pc = "idle"
    /\ synchronized => \A u \in Threads : threads[u].pc = "idle"
    /\ Run(t, Self, IF TruthyStr(_current_continuation)
                    THEN [Outside("") EXCEPT !.pc = "fetch_and_parse"]
                    ELSE Outside("IndexError"))

\* videos, continuation = self.fetch_and_parse(self._current_continuation)
FetchNext(t) ==
    /\ threads[t].pc = "fetch_and_parse"
    /\ \E f \in {fetch_and_parse(Self, search(_current_continuation),
                                 _current_continuation)} :
           /\ Len(f.self.calls) <= MaxCalls
           /\ Run(t, f.self, IF f.exc # "" THEN Outside(f.exc)
                             ELSE [pc |-> "extend", exc |-> "", videos |-> f.videos,
                                   continuation |-> f.continuation])

\* self._results.extend(videos)
Extend(t) ==
    /\ threads[t].pc = "extend"
    /\ IF _results.isNone THEN Run(t, Self, Outside("AttributeError"))
       ELSE IF threads[t].videos.isNone THEN Run(t, Self, Outside("TypeError"))
       ELSE Run(t, [Self EXCEPT !._results = List(@.v \o threads[t].videos.v)],
                [threads[t] EXCEPT !.pc = "store"])

\* self._current_continuation = continuation, and the call returns
StoreContinuation(t) ==
    /\ threads[t].pc = "store"
    /\ Run(t, store_continuation(Self, threads[t].continuation), Outside(""))

ThreadsNext ==
    \E t \in Threads :
        TestContinuation(t) \/ FetchNext(t) \/ Extend(t) \/ StoreContinuation(t)

ThreadsSpec == ThreadsInit /\ [][ThreadsNext]_vars

-----------------------------------------------------------------------------
(* Properties of the session *)

\* the four session fields the operations assign
Fields(self) == <<self._initial_results, self._results, self._completion_suggestions,
                  self._current_continuation>>

\* a session on which nothing has been read yet
Fresh(self) ==
    /\ Fields(self) = <<NoneDoc, NoneList, NoneList, NoneStr>>
    /\ self.calls = <<>>

\* the last operation called the client
Called == Len(calls) > Len(pre.self.calls)

\* C1: a read of results that follows an earlier read, with no get_next_results
\* in between, returns the list the earlier read returned and calls the client
\* no more.
C1_ResultsReadOnce ==
    (op = "results" /\ pre.hist.lastRead.seen)
        => /\ exc = ""
           /\ ret = pre.hist.lastRead.val
           /\ calls = pre.self.calls

\* C2: the list a read of results returns is the concatenation of the results
\* of the first page and of the pages of the get_next_results calls completed
\* since, and no operation removes, replaces or reorders an element of the
\* accumulated list.
C2_ResultsAreConcatenation ==
    /\ (op = "results" /\ exc = "" /\ hist.initialDone) => ret.v = hist.expected
    /\ \A i \in 1..Len(pre.self._results.v) :
           i <= Len(_results.v) /\ _results.v[i] = pre.self._results.v[i]

\* C3: get_next_results on a fresh session raises IndexError, calls the client
\* not at all and leaves every field of the session as it was.
C3_FreshGetNextRaises ==
    (op = "get_next_results" /\ Fresh(pre.self))
        => /\ exc = "IndexError"
           /\ calls = pre.self.calls
           /\ Fields(Self) = Fields(pre.self)

C3_Witness ==
    /\ op = "get_next_results"
    /\ Fresh(pre.self)
    /\ exc = "IndexError"

\* C4: once a parsed page has carried no continuation token, every later
\* get_next_results raises IndexError and calls the client not at all.
C4_ExhaustionIsPermanent ==
    (op = "get_next_results" /\ pre.hist.exhausted)
        => /\ exc = "IndexError"
           /\ calls = pre.self.calls

\* C5: every read of completion_suggestions returns what the first read
\* returned, which is the refinements list of the document of the first page.
C5_SuggestionsFixedAtFirstFetch ==
    (op = "completion_suggestions" /\ exc = "")
        => /\ pre.hist.firstSuggestions.seen => ret = pre.hist.firstSuggestions.val
           /\ ret = hist.firstDoc.v.refinements

\* C6: a read of completion_suggestions on a fresh session calls the client once
\* and returns the refinements list of the document it got, whatever the page
\* parses to; a later read returns the cached list and calls the client no more.
C6_SuggestionsFetchOnce ==
    /\ (op = "completion_suggestions" /\ Fresh(pre.self) /\ exc = "")
           => /\ Len(calls) = 1
              /\ ret = _initial_results.v.refinements
    /\ (op = "completion_suggestions" /\ pre.hist.firstSuggestions.seen)
           => /\ exc = ""
              /\ calls = pre.self.calls

\* neither section path of the document can be located
MalformedEnvelope(raw_results) ==
    raw_results.sectionList.isNone /\ raw_results.continuationItems.isNone

\* C7: an operation whose fetch gets a document with neither section path fails
\* and leaves every field of the session as it was.
C7_MalformedEnvelopeChangesNothing ==
    (~hist.fetched.isNone /\ MalformedEnvelope(hist.fetched.v))
        => /\ exc # ""
           /\ Fields(Self) = Fields(pre.self)

\* C8: when the client fails, the operation raises that failure after exactly
\* one call of the client, returns no list, and leaves every field of the
\* session as it was.
C8_ClientFailurePropagates ==
    hist.clientFailed
        => /\ exc = "ClientError"
           /\ Len(calls) = Len(pre.self.calls) + 1
           /\ ret = NoneList
           /\ Fields(Self) = Fields(pre.self)

C8_Witness ==
    /\ hist.clientFailed
    /\ op = "get_next_results"
    /\ exc = "ClientError"
    /\ TruthyList(_results)

\* the first word of the view-count text, commas removed, is neither a decimal
\* number nor "No"
BadViewCount(renderer) ==
    /\ ~renderer.viewCountText.isNone
    /\ LET w == RemoveCommas(TakeWord(DropSpaces(renderer.viewCountText.v.text)))
       IN w # <<"N", "o">> /\ (w = <<>> \/ \E i \in 1..Len(w) : w[i] \notin Digits)

\* a video or channel entry from which no result can be extracted
FailingEntry(details) ==
    \/ /\ Branch(details) = "video"
       /\ ~(VideoFields \subseteq details.renderer.fields) \/ BadViewCount(details.renderer)
    \/ /\ Branch(details) = "channel"
       /\ "channelId" \notin details.renderer.fields

\* the entries of the item section the parser reads
ParsedEntries(raw_results) == ItemRenderer(Sections(raw_results).v, NoneList).v

\* the document has a located envelope and a failing entry in its item section
HasFailingEntry(raw_results) ==
    /\ ~MalformedEnvelope(raw_results)
    /\ \E i \in 1..Len(ParsedEntries(raw_results)) :
           FailingEntry(ParsedEntries(raw_results)[i])

\* the document with every failing entry of its item section taken out
RECURSIVE WithoutFailing(_)
WithoutFailing(contents) ==
    IF contents = <<>> THEN <<>>
    ELSE IF FailingEntry(Head(contents)) THEN WithoutFailing(Tail(contents))
    ELSE <<Head(contents)>> \o WithoutFailing(Tail(contents))

\* the objects of a result list without their positions
Identities(rs) == [i \in 1..Len(rs) |-> [cls |-> rs[i].cls, id |-> rs[i].id]]

\* C9 as stated: a read of results whose page has a failing entry still returns
\* the results of the other video and channel entries, in order, and stores the
\* token of the page.
C9_EntryFailureIsContained ==
    (op = "results" /\ ~hist.fetched.isNone /\ HasFailingEntry(hist.fetched.v))
        => /\ exc = ""
           /\ ~ret.isNone
           /\ Identities(ret.v) =
                  Identities(ParseContents(WithoutFailing(ParsedEntries(hist.fetched.v)),
                                           1, Len(calls), <<>>, 0).v)
           /\ _current_continuation =
                  ContinuationRenderer(Sections(hist.fetched.v).v, NoneStr)

\* C9 as amended: an operation whose page has a failing entry in the item
\* section it parses raises the error of that entry, returns no list, and
\* leaves the accumulated results and the stored token as they were.
C9_EntryFailureAbortsPage ==
    (~hist.fetched.isNone /\ HasFailingEntry(hist.fetched.v))
        => /\ exc \in {"KeyError", "IndexError", "ValueError"}
           /\ ret = NoneList
           /\ _results = pre.self._results
           /\ _current_continuation = pre.self._current_continuation

C9_Witness ==
    /\ op = "get_next_results"
    /\ ~hist.fetched.isNone
    /\ HasFailingEntry(hist.fetched.v)
    /\ exc = "ValueError"
    /\ TruthyList(_results)

\* C10: every request carries the query and the filter of the session; its
\* continuation is None when, and only when, results makes it, and is otherwise
\* the token of the page parsed last.
C10_RequestsCarryLatestToken ==
    Called
        => LET request == calls[Len(calls)]
           IN /\ request.query = query
              /\ request.param = param
              /\ request.continuation.isNone <=> op # "get_next_results"
              /\ op = "get_next_results"
                     => /\ pre.hist.lastToken.seen
                        /\ request.continuation = pre.hist.lastToken.val

\* the page fetch_and_parse makes of the document fetched by the last operation
FetchedPage == Parse(hist.fetched.v, Len(calls))

\* what extend adds to the list for a page
Appended(page) == IF page.results.isNone THEN <<>> ELSE page.results.v

\* C15: get_next_results called while a continuation is stored, the client
\* answering with a document whose sections can be located (and whose entries
\* can all be extracted), completes without error, appends the page's results
\* - nothing when the page or the first page had no item section - and stores
\* the page's next continuation.
C15_GetNextCompletes ==
    (/\ op = "get_next_results"
     /\ TruthyStr(pre.self._current_continuation)
     /\ ~hist.fetched.isNone
     /\ ~MalformedEnvelope(hist.fetched.v)
     /\ ~HasFailingEntry(hist.fetched.v))
        => /\ exc = ""
           /\ _current_continuation = FetchedPage.next_continuation
           /\ IF pre.self._results.isNone THEN _results = NoneList
              ELSE _results = List(pre.self._results.v \o Appended(FetchedPage))

\* C18: after get_next_results either the call completed, the results are the
\* former results followed by the fetched page's and the continuation is the
\* page's, or the call raised and results and continuation are what they were.
C18_GetNextIsAllOrNothing ==
    op = "get_next_results"
        => \/ /\ exc = ""
              /\ ~hist.fetched.isNone
              /\ FetchedPage.exc = ""
              /\ ~pre.self._results.isNone
              /\ ~FetchedPage.results.isNone
              /\ _results = List(pre.self._results.v \o FetchedPage.results.v)
              /\ _current_continuation = FetchedPage.next_continuation
           \/ /\ exc # ""
              /\ _results = pre.self._results
              /\ _current_continuation = pre.self._current_continuation

C18_Witness ==
    /\ op = "get_next_results"
    /\ exc = ""
    /\ Len(_results.v) > Len(pre.self._results.v)
    /\ _current_continuation # pre.self._current_continuation

\* C19: whenever the session holds a result list, _initial_results is the
\* document whose parse was last assigned to _results and
\* _current_continuation; and get_next_results never sets _initial_results.
C19_InitialResultsIsTheSeed ==
    /\ ~_results.isNone => _initial_results = hist.seed
    /\ op = "get_next_results" => _initial_results = pre.self._initial_results

-----------------------------------------------------------------------------
(* Properties of fetch_and_parse *)

\* fetch_and_parse was called on the new session and the client answered
Parsed == op = "fetch_and_parse" /\ ~hist.fetched.isNone

\* the sections list of the document the client answered with
FetchedSections == Sections(hist.fetched.v).v

HasItemSection(sections) ==
    \E i \in 1..Len(sections) : ~sections[i].itemSectionRenderer.isNone

HasContinuationItem(sections) ==
    \E i \in 1..Len(sections) : ~sections[i].continuationItemRenderer.isNone

\* the place of the last item section
LastItemSection(sections) ==
    CHOOSE i \in 1..Len(sections) :
        /\ ~sections[i].itemSectionRenderer.isNone
        /\ \A j \in (i + 1)..Len(sections) : sections[j].itemSectionRenderer.isNone

\* the token of the last continuation item, None when there is none
LastToken(sections) ==
    IF ~HasContinuationItem(sections) THEN NoneStr
    ELSE LET i == CHOOSE i \in 1..Len(sections) :
                      /\ ~sections[i].continuationItemRenderer.isNone
                      /\ \A j \in (i + 1)..Len(sections) :
                             sections[j].continuationItemRenderer.isNone
         IN Str(sections[i].continuationItemRenderer.v)

\* the entry carries one of the seven keys that are skipped
DiscardVariant(details) ==
    details.keys \cap {"searchPyvRenderer", "shelfRenderer", "radioRenderer",
                       "playlistRenderer", "horizontalCardListRenderer",
                       "didYouMeanRenderer", "backgroundPromoRenderer"} # {}

\* every entry of every item section is a discard variant
AllDiscarded(sections) ==
    \A i \in 1..Len(sections) :
        \A j \in 1..Len(sections[i].itemSectionRenderer.v) :
            DiscardVariant(sections[i].itemSectionRenderer.v[j])

\* C11: for a page with an item section whose entries are all discard variants,
\* fetch_and_parse returns an empty list, not None, and the token of the
\* continuation item (None when there is no continuation item).
C11_DiscardedPageIsEmptyList ==
    (Parsed /\ ~MalformedEnvelope(hist.fetched.v) /\ HasItemSection(FetchedSections)
            /\ AllDiscarded(FetchedSections))
        => /\ exc = ""
           /\ ret.videos = List(<<>>)
           /\ ret.continuation = LastToken(FetchedSections)

C11_Witness ==
    /\ Parsed
    /\ ~MalformedEnvelope(hist.fetched.v)
    /\ HasItemSection(FetchedSections)
    /\ AllDiscarded(FetchedSections)
    /\ Len(FetchedSections[LastItemSection(FetchedSections)].itemSectionRenderer.v) = 2
    /\ ret.videos = List(<<>>)
    /\ ret.continuation = Str("t1")

\* C12: when fetch_and_parse returns, its result list is None exactly when the
\* sections hold no item section, its token is None exactly when they hold no
\* continuation item, and an item section without entries gives an empty list.
C12_NoneOnlyWithoutSection ==
    (Parsed /\ exc = "")
        => /\ ret.videos.isNone <=> ~HasItemSection(FetchedSections)
           /\ ret.continuation.isNone <=> ~HasContinuationItem(FetchedSections)
           /\ (/\ HasItemSection(FetchedSections)
               /\ FetchedSections[LastItemSection(FetchedSections)]
                      .itemSectionRenderer.v = <<>>)
                  => ret.videos = List(<<>>)

C12_Witness ==
    /\ Parsed
    /\ exc = ""
    /\ ~MalformedEnvelope(hist.fetched.v)
    /\ ~HasItemSection(FetchedSections)
    /\ HasContinuationItem(FetchedSections)
    /\ ret.videos.isNone
    /\ ~ret.continuation.isNone

\* the number of sections that satisfy P
Count(sections, P(_)) == Cardinality({i \in 1..Len(sections) : P(sections[i])})

\* an initial page with one item section and one continuation item, from every
\* video and channel entry of which a result can be extracted
ValidInitialPage(raw_results) ==
    /\ ~raw_results.sectionList.isNone
    /\ Count(raw_results.sectionList.v, LAMBDA x : ~x.itemSectionRenderer.isNone) = 1
    /\ Count(raw_results.sectionList.v, LAMBDA x : ~x.continuationItemRenderer.isNone) = 1
    /\ ~HasFailingEntry(raw_results)

\* the entry carries a video or channel container and no key that is skipped
ResultEntry(details) ==
    /\ ~DiscardVariant(details)
    /\ details.keys \cap {"videoRenderer", "channelRenderer"} # {}

\* C13 as stated: for a valid initial page with one item section and one
\* continuation item, fetch_and_parse returns a non-empty list and a token.
C13_ValidPageIsNonEmpty ==
    (Parsed /\ ValidInitialPage(hist.fetched.v))
        => /\ exc = ""
           /\ TruthyList(ret.videos)
           /\ ~ret.continuation.isNone

\* C13 as amended: for a valid initial page with one item section and one
\* continuation item, fetch_and_parse returns a list, which is non-empty exactly
\* when the item section holds a video or channel entry that is not also a
\* discard variant, and the token of the continuation item.
C13_ValidPageIsList ==
    (Parsed /\ ValidInitialPage(hist.fetched.v))
        => /\ exc = ""
           /\ ~ret.videos.isNone
           /\ ret.videos.v # <<>>
                  <=> \E i \in 1..Len(ParsedEntries(hist.fetched.v)) :
                          ResultEntry(ParsedEntries(hist.fetched.v)[i])
           /\ ret.continuation = LastToken(FetchedSections)
           /\ ~ret.continuation.isNone

C13_Witness ==
    /\ Parsed
    /\ ValidInitialPage(hist.fetched.v)
    /\ ret.videos = List(<<>>)
    /\ ret.continuation = Str("t1")
    /\ Len(ParsedEntries(hist.fetched.v)) = 1

\* the number a word of digits denotes
RECURSIVE Numeral(_)
Numeral(w) ==
    IF w = <<>> THEN 0
    ELSE 10 * Numeral(SubSeq(w, 1, Len(w) - 1))
         + (CHOOSE n \in 0..9 : <<"0", "1", "2", "3", "4", "5", "6", "7", "8", "9">>[n + 1]
                                    = w[Len(w)])

\* the first word of a text with its commas taken out
CountWord(text) == SelectSeq(TakeWord(DropSpaces(text)), LAMBDA c : c # ",")

RECURSIVE ContainerResults(_, _, _)
ContainerResults(contents, i, call) ==
    IF i > Len(contents) THEN <<>>
    ELSE (IF contents[i].keys \cap {"videoRenderer", "channelRenderer"} # {}
          THEN <<[cls |-> IF "videoRenderer" \in contents[i].keys THEN "YouTube"
                          ELSE "Channel",
                  id |-> contents[i].renderer.id, call |-> call, pos |-> i]>>
          ELSE <<>>)
         \o ContainerResults(contents, i + 1, call)

\* the entries of contents that reach _parse_video or _parse_channel
RECURSIVE ExtractedResults(_, _, _)
ExtractedResults(contents, i, call) ==
    IF i > Len(contents) THEN <<>>
    ELSE (IF ResultEntry(contents[i])
          THEN <<[cls |-> IF "videoRenderer" \in contents[i].keys THEN "YouTube"
                          ELSE "Channel",
                  id |-> contents[i].renderer.id, call |-> call, pos |-> i]>>
          ELSE <<>>)
         \o ExtractedResults(contents, i + 1, call)

\* the entries that carry none of the nine known keys
Unrecognized(contents) ==
    {i \in 1..Len(contents) :
         ~DiscardVariant(contents[i])
         /\ contents[i].keys \cap {"videoRenderer", "channelRenderer"} = {}}

\* the entries of the last item section of the fetched document
LastContents == FetchedSections[LastItemSection(FetchedSections)].itemSectionRenderer.v

C20_LastSectionsWin ==
    (/\ Parsed
     /\ ~MalformedEnvelope(hist.fetched.v)
     /\ \/ Count(FetchedSections, LAMBDA x : ~x.itemSectionRenderer.isNone) > 1
        \/ Count(FetchedSections, LAMBDA x : ~x.continuationItemRenderer.isNone) > 1)
        => /\ exc = "" => ret.continuation = LastToken(FetchedSections)
           /\ HasItemSection(FetchedSections)
                  => /\ exc = "" <=> \A i \in 1..Len(LastContents) :
                                         ~FailingEntry(LastContents[i])
                     /\ exc = "" => ret.videos =
                            List(ExtractedResults(LastContents, 1, Len(calls)))

C20_Witness ==
    /\ Parsed
    /\ Len(FetchedSections) = 4
    /\ Count(FetchedSections, LAMBDA x : ~x.itemSectionRenderer.isNone) = 2
    /\ FetchedSections[1].itemSectionRenderer.v = <<Video("a")>>
    /\ exc = ""
    /\ Len(ret.videos.v) = 1
    /\ ret.videos.v[1].cls = "Channel"
    /\ ret.continuation = Str("t2")

\* one continuation was requested from the client twice
SameTokenRequested ==
    \E i, j \in DOMAIN calls :
        /\ i < j
        /\ ~calls[i].continuation.isNone
        /\ calls[i].continuation = calls[j].continuation

\* the results of one page are in the list twice
SamePageAppended ==
    \E i, j \in DOMAIN _results.v :
        /\ i < j
        /\ _results.v[i].cls = _results.v[j].cls
        /\ _results.v[i].id = _results.v[j].id

\* C17: when the callers run get_next_results under mutual exclusion, no
\* continuation is requested twice and no page is appended twice; without it
\* the state C17_Witness is reachable.
C17_MutualExclusionPreventsDuplicates ==
    synchronized => ~SameTokenRequested /\ ~SamePageAppended

\* two unsynchronized calls have read the same continuation, fetched its page
\* twice and appended it twice
C17_Witness ==
    /\ ~synchronized
    /\ \A t \in Threads : threads[t].pc = "idle" /\ threads[t].exc = ""
    /\ Len(calls) = 3
    /\ calls[2].continuation = Str("t1")
    /\ calls[3].continuation = Str("t1")
    /\ SamePageAppended

====
